---- MODULE Spec2Model ----
(***************************************************************************)
(* Model of the knowledge-retrieval layer of Diaries-of-the-Upheaval-2.0:  *)
(* transcript chunking and ingestion, retrieval with truncation, the       *)
(* compendium lookup, the map manager and the IGN scraper wrapper.         *)
(*                                                                         *)
(* A Python str is a sequence of symbols.  A symbol is a one-character     *)
(* string ("a", " ") or, for fixed literals the code never takes apart,    *)
(* one string holding the whole literal.                                   *)
(***************************************************************************)
EXTENDS Integers, Sequences, FiniteSets, TLC

VARIABLES
    \* split_text_into_chunks (one call)
    text, max_words, overlap, words, start, chunks, cpc,
    \* module state of transcript_manager: the OpenAI client ("ok" or None);
    \* the collection handle get_chroma_collection returned ("ok" or None)
    client, lore_collection,
    \* populate_collection_with_transcripts: the Chroma collection (chunk id ->
    \* stored record), the argument, the transcripts YouTube serves, and per
    \* run its position, the adds it made, the chunk errors and the counts it
    \* printed
    collection, video_ids, transcript, ipc, vi, ci, adds, failed, countPrinted,
    \* and the video ids whose transcript it requested from YouTube
    fetched,
    \* get_relevant_context_from_transcripts (one call): the arguments, the
    \* documents the collection holds, the loop position, the sub-queries
    \* whose embedding was requested, those that raised, the documents each
    \* one added, the set of texts, the joined text and the returned string
    user_query, corpus, n_results_per_query, max_total_tokens,
    rpc, sub, issued, sub_failed, sub_docs, all_retrieved_texts_set,
    combined_context, context,
    \* CompendiumManager: the COMPENDIUM.json file, the table built from it,
    \* and one run of the compendium tool (query, entry found, formatted text)
    compendium_file, all_entries_df, query, found_entry, response,
    \* MapManager: the marker files on disk and the outcome of the construction
    \* ("unloaded", "constructed" or "raised"), the last name lookup (argument
    \* and result),
    marker_files, map_init, single_name, found_location,
    \* the locations loaded, the base maps and icon files on disk,
    \* the last region search (arguments and result) and the last rendering
    \* (argument, markers pasted, returned path), the temporary files created;
    \* found_locations and render_input are <<>> before the first call and
    \* <<list>> after a call
    locations_db, base_maps, icon_files, map_category, map_region,
    found_locations, render_input, drawn, map_result, tmp_files,
    \* get_ign_data_for_agent: the query, the page the search gave, the data
    \* scraped from it and the string returned
    ign_query, page_url, scraped_data, ign_response

chunkVars == <<text, max_words, overlap, words, start, chunks, cpc>>
ingestVars == <<collection, video_ids, transcript, ipc, vi, ci, adds, failed,
                countPrinted, fetched>>

retrieveVars == <<user_query, corpus, n_results_per_query, max_total_tokens,
                  rpc, sub, issued, sub_failed, sub_docs,
                  all_retrieved_texts_set, combined_context, context>>

compendiumVars == <<compendium_file, all_entries_df, query, found_entry, response>>

mapVars == <<marker_files, map_init, single_name, found_location, locations_db, base_maps, icon_files, map_category, map_region,
             found_locations, render_input, drawn, map_result, tmp_files>>

ignVars == <<ign_query, page_url, scraped_data, ign_response>>

vars == <<chunkVars, client, lore_collection, ingestVars, retrieveVars, compendiumVars, mapVars, ignVars>>

None == "None"

Min(a, b) == IF a < b THEN a ELSE b
Max(a, b) == IF a > b THEN a ELSE b

\* All sequences over S of length 0..n.
SeqsUpTo(S, n) == UNION {[1..k -> S] : k \in 0..n}

(***************************************************************************)
(* Python string and list primitives                                       *)
(***************************************************************************)
IsSpace(c) == c \in {" ", "\n"}

\* list[lo:hi] with integer lo, hi (negative indices count from the end).
PySlice(s, lo, hi) ==
    LET n  == Len(s)
        l  == IF lo < 0 THEN Max(lo + n, 0) ELSE Min(lo, n)
        h  == IF hi < 0 THEN Max(hi + n, 0) ELSE Min(hi, n)
    IN  SubSeq(s, l + 1, h)

RECURSIVE DropSpaces(_)
DropSpaces(t) ==
    IF t # <<>> /\ IsSpace(Head(t)) THEN DropSpaces(Tail(t)) ELSE t

\* re.split(r'\s+', t), continuing a word cur already read.
RECURSIVE ReSplitFrom(_, _)
ReSplitFrom(t, cur) ==
    IF t = <<>> THEN <<cur>>
    ELSE IF IsSpace(Head(t)) THEN <<cur>> \o ReSplitFrom(DropSpaces(t), <<>>)
    ELSE ReSplitFrom(Tail(t), Append(cur, Head(t)))

\* re.split(r'\s+', t): empty strings are kept at both ends; never [].
ReSplit(t) == ReSplitFrom(t, <<>>)

\* str.split(): whitespace runs separate, no empty strings.
PySplit(t) == SelectSeq(ReSplit(t), LAMBDA w : w # <<>>)

\* sep.join(ws)
RECURSIVE Join(_, _)
Join(ws, sep) ==
    IF ws = <<>> THEN <<>>
    ELSE IF Len(ws) = 1 THEN ws[1]
    ELSE ws[1] \o sep \o Join(Tail(ws), sep)

\* The cased letters, lower and upper case aligned.
LowerLetters ==
    <<"a", "b", "c", "d", "e", "f", "g", "h", "i", "j", "k", "l", "m",
      "n", "o", "p", "q", "r", "s", "t", "u", "v", "w", "x", "y", "z">>
UpperLetters ==
    <<"A", "B", "C", "D", "E", "F", "G", "H", "I", "J", "K", "L", "M",
      "N", "O", "P", "Q", "R", "S", "T", "U", "V", "W", "X", "Y", "Z">>

LowerSet == {LowerLetters[i] : i \in DOMAIN LowerLetters}
UpperSet == {UpperLetters[i] : i \in DOMAIN UpperLetters}
ToLower ==
    [c \in UpperSet |->
        LowerLetters[CHOOSE i \in DOMAIN UpperLetters : UpperLetters[i] = c]]
ToUpper ==
    [c \in LowerSet |->
        UpperLetters[CHOOSE i \in DOMAIN LowerLetters : LowerLetters[i] = c]]

IsLower(c) == c \in LowerSet
IsUpper(c) == c \in UpperSet
IsCased(c) == IsLower(c) \/ IsUpper(c)

LowerChar(c) == IF IsUpper(c) THEN ToLower[c] ELSE c
UpperChar(c) == IF IsLower(c) THEN ToUpper[c] ELSE c

\* str.lower()
Lower(t) == [i \in DOMAIN t |-> LowerChar(t[i])]

RECURSIVE DropTrailingSpaces(_)
DropTrailingSpaces(t) ==
    IF t # <<>> /\ IsSpace(t[Len(t)])
    THEN DropTrailingSpaces(SubSeq(t, 1, Len(t) - 1))
    ELSE t

\* str.strip()
Strip(t) == DropTrailingSpaces(DropSpaces(t))

\* str.title(): a cased character is upper-cased after an uncased one (or at
\* the start) and lower-cased after a cased one.
Title(t) ==
    [i \in DOMAIN t |->
        IF i > 1 /\ IsCased(t[i - 1]) THEN LowerChar(t[i]) ELSE UpperChar(t[i])]

\* needle in haystack (substring test)
Contains(haystack, needle) ==
    \E i \in 1..(Len(haystack) - Len(needle) + 1) :
        SubSeq(haystack, i, i + Len(needle) - 1) = needle

\* Series.str.contains(pat): re.search of a pattern of literal symbols and
\* "." (any symbol)
StrContains(haystack, pat) ==
    \E i \in 1..(Len(haystack) - Len(pat) + 1) :
        \A k \in 1..Len(pat) : pat[k] = "." \/ pat[k] = haystack[i + k - 1]

\* str.replace(old, new) for a one-symbol old and a new of at most one symbol
RECURSIVE ReplaceSym(_, _, _)
ReplaceSym(t, old, new) ==
    IF t = <<>> THEN <<>>
    ELSE (IF Head(t) = old THEN new ELSE <<Head(t)>>) \o ReplaceSym(Tail(t), old, new)

(***************************************************************************)
(* split_text_into_chunks                                                  *)
(***************************************************************************)
MaxTextLen == 5
MaxParam   == 3
MaxChunks  == 5

TextChars == {"a", "b", " "}

\* end = start + max_words
ChunkEnd(s, mw) == s + mw

\* start += (max_words - overlap)
NextStart(s, mw, ov) == s + (mw - ov)

\* words = re.split(r'\s+', text)
ChunkWords(t) == ReSplit(t)

InitChunkVars ==
    /\ text \in SeqsUpTo(TextChars, MaxTextLen)
    /\ max_words \in 1..MaxParam
    /\ overlap \in 0..MaxParam
    /\ words = <<>>
    /\ start = 0
    /\ chunks = <<>>
    /\ cpc = "call"

\* Lines 36-41: split, the early return on an empty word list, the loop set-up.
ChunkBegin ==
    /\ cpc = "call"
    /\ words' = ChunkWords(text)
    /\ start' = 0
    /\ chunks' = <<>>
    /\ cpc' = IF words' = <<>> THEN "done" ELSE "loop"
    /\ UNCHANGED <<text, max_words, overlap>>
    /\ UNCHANGED <<client, lore_collection, ingestVars, retrieveVars, compendiumVars, mapVars, ignVars>>

\* Lines 42-49: one evaluation of the while condition and, if it holds, the body.
ChunkLoop ==
    /\ cpc = "loop"
    /\ Len(chunks) < MaxChunks
    /\ IF start < Len(words)
       THEN LET end == ChunkEnd(start, max_words)
                chunk_words == PySlice(words, start, end)
            IN  /\ chunks' = Append(chunks, Join(chunk_words, <<" ">>))
                /\ IF end >= Len(words)
                   THEN cpc' = "done" /\ start' = start
                   ELSE cpc' = "loop" /\ start' = NextStart(start, max_words, overlap)
       ELSE cpc' = "done" /\ UNCHANGED <<start, chunks>>
    /\ UNCHANGED <<text, max_words, overlap, words>>
    /\ UNCHANGED <<client, lore_collection, ingestVars, retrieveVars, compendiumVars, mapVars, ignVars>>

(***************************************************************************)
(* populate_collection_with_transcripts                                    *)
(***************************************************************************)
DefaultMaxWords == 300
DefaultOverlap  == 50
MaxVideoIds     == 2

Videos == {"v1", "v2"}
Runs   == 1..2
\* Word counts of the transcripts get_transcript returns; 0 stands for None
\* (no transcript, transcripts disabled, or an empty one).
TranscriptWords == {0, 120, 301}

\* The [start, end) word ranges of the chunks of a text of n words.
RECURSIVE SplitRanges(_, _, _, _)
SplitRanges(n, mw, ov, s) ==
    IF s < n
    THEN LET e == ChunkEnd(s, mw)
         IN  <<<<s, Min(e, n)>>>> \o
             (IF e >= n THEN <<>> ELSE SplitRanges(n, mw, ov, NextStart(s, mw, ov)))
    ELSE <<>>

\* chunks = split_text_into_chunks(transcript)
TranscriptChunks(v) == SplitRanges(transcript[v], DefaultMaxWords, DefaultOverlap, 0)

\* chunk_id = f"{video_id}_chunk_{i}"
ChunkId(v, i) == <<v, "_chunk_", i>>

AllChunkIds == {ChunkId(v, i) : v \in Videos, i \in 0..1}

NeverStored(id) == FALSE
\* collection.get(ids=[chunk_id])['ids']
AlreadyStored(id) == id \in DOMAIN collection

CollectionOnly(id, v, chunk) == [k \in {id} |-> [video_id |-> v, document |-> chunk]]
\* collection.add(ids=[chunk_id], embeddings=..., documents=[chunk], metadatas=...)
CollectionAdd(id, v, chunk) ==
    IF id \in DOMAIN collection
    THEN collection
    ELSE [k \in DOMAIN collection \cup {id} |->
            IF k = id THEN [video_id |-> v, document |-> chunk] ELSE collection[k]]

\* collection.count()
CollectionCount == Cardinality(DOMAIN collection)

InitClient == client \in {"ok", None}

\* get_chroma_collection, lines 73-87: the collection, or None
InitCollection == lore_collection \in {"ok", None}

InitIngestVars ==
    /\ video_ids \in SeqsUpTo(Videos, MaxVideoIds)
    /\ transcript \in [Videos -> TranscriptWords]
    /\ \E ids \in SUBSET AllChunkIds :
          collection = [k \in ids |-> [video_id |-> k[1], document |-> "stored earlier"]]
    /\ ipc = [r \in Runs |-> "idle"]
    /\ vi = [r \in Runs |-> 1]
    /\ ci = [r \in Runs |-> 0]
    /\ adds = [r \in Runs |-> {}]
    /\ failed = [r \in Runs |-> {}]
    /\ countPrinted = [r \in Runs |-> <<>>]
    /\ fetched = [r \in Runs |-> {}]

IdleIngestVars ==
    /\ video_ids = <<>>
    /\ transcript = [v \in Videos |-> 0]
    /\ collection = <<>>
    /\ ipc = [r \in Runs |-> "idle"]
    /\ vi = [r \in Runs |-> 1]
    /\ ci = [r \in Runs |-> 0]
    /\ adds = [r \in Runs |-> {}]
    /\ failed = [r \in Runs |-> {}]
    /\ countPrinted = [r \in Runs |-> <<>>]
    /\ fetched = [r \in Runs |-> {}]

\* Lines 96-100: the call; without a client it returns at once.
IngestStart(r) ==
    /\ ipc[r] = "idle"
    /\ ipc' = [ipc EXCEPT ![r] = IF client = None THEN "returned" ELSE "video"]
    /\ UNCHANGED <<collection, video_ids, transcript, vi, ci, adds, failed, countPrinted, fetched>>
    /\ UNCHANGED <<chunkVars, client, lore_collection, retrieveVars, compendiumVars, mapVars, ignVars>>

\* Lines 101-114 and 139-140: the next video id, or the end of the list,
\* where collection.count() raises AttributeError on a None collection.
IngestVideo(r) ==
    /\ ipc[r] = "video"
    /\ IF vi[r] > Len(video_ids)
       THEN /\ IF lore_collection = None
               THEN /\ ipc' = [ipc EXCEPT ![r] = "raised"]
                    /\ UNCHANGED countPrinted
               ELSE /\ countPrinted' = [countPrinted EXCEPT ![r] = <<CollectionCount>>]
                    /\ ipc' = [ipc EXCEPT ![r] = "returned"]
            /\ UNCHANGED <<vi, ci>>
       ELSE /\ IF transcript[video_ids[vi[r]]] = 0
                  \/ TranscriptChunks(video_ids[vi[r]]) = <<>>
               THEN vi' = [vi EXCEPT ![r] = @ + 1] /\ UNCHANGED <<ipc, ci>>
               ELSE /\ ipc' = [ipc EXCEPT ![r] = "chunk"]
                    /\ ci' = [ci EXCEPT ![r] = 0]
                    /\ UNCHANGED vi
            /\ UNCHANGED countPrinted
    /\ fetched' = [fetched EXCEPT ![r] =
                      IF vi[r] > Len(video_ids) THEN @ ELSE @ \cup {video_ids[vi[r]]}]
    /\ UNCHANGED <<collection, video_ids, transcript, adds, failed>>
    /\ UNCHANGED <<chunkVars, client, lore_collection, retrieveVars, compendiumVars, mapVars, ignVars>>

\* Lines 115-119: the next chunk of the video and the existence check,
\* where collection.get raises AttributeError on a None collection.
IngestCheck(r) ==
    /\ ipc[r] = "chunk"
    /\ LET v == video_ids[vi[r]]
       IN  IF ci[r] >= Len(TranscriptChunks(v))
           THEN /\ vi' = [vi EXCEPT ![r] = @ + 1]
                /\ ipc' = [ipc EXCEPT ![r] = "video"]
                /\ UNCHANGED ci
           ELSE IF lore_collection = None
           THEN /\ ipc' = [ipc EXCEPT ![r] = "raised"]
                /\ UNCHANGED <<vi, ci>>
           ELSE IF AlreadyStored(ChunkId(v, ci[r]))
           THEN /\ ci' = [ci EXCEPT ![r] = @ + 1]
                /\ UNCHANGED <<ipc, vi>>
           ELSE /\ ipc' = [ipc EXCEPT ![r] = "embed"]
                /\ UNCHANGED <<vi, ci>>
    /\ UNCHANGED <<collection, video_ids, transcript, adds, failed, countPrinted, fetched>>
    /\ UNCHANGED <<chunkVars, client, lore_collection, retrieveVars, compendiumVars, mapVars, ignVars>>

\* Lines 121-133: the embedding is created and the record added.
IngestEmbedAdd(r) ==
    /\ ipc[r] = "embed"
    /\ LET v  == video_ids[vi[r]]
           id == ChunkId(v, ci[r])
       IN  /\ collection' = CollectionAdd(id, v, TranscriptChunks(v)[ci[r] + 1])
           /\ adds' = [adds EXCEPT ![r] = @ \cup {id}]
    /\ ci' = [ci EXCEPT ![r] = @ + 1]
    /\ ipc' = [ipc EXCEPT ![r] = "chunk"]
    /\ UNCHANGED <<video_ids, transcript, vi, failed, countPrinted, fetched>>
    /\ UNCHANGED <<chunkVars, client, lore_collection, retrieveVars, compendiumVars, mapVars, ignVars>>

\* Lines 134-137: embeddings.create or collection.add raised; the error is
\* printed for the chunk and the loop goes on.
IngestEmbedFail(r) ==
    /\ ipc[r] = "embed"
    /\ failed' = [failed EXCEPT ![r] = @ \cup {ChunkId(video_ids[vi[r]], ci[r])}]
    /\ ci' = [ci EXCEPT ![r] = @ + 1]
    /\ ipc' = [ipc EXCEPT ![r] = "chunk"]
    /\ UNCHANGED <<collection, video_ids, transcript, vi, adds, countPrinted, fetched>>
    /\ UNCHANGED <<chunkVars, client, lore_collection, retrieveVars, compendiumVars, mapVars, ignVars>>

(***************************************************************************)
(* truncate_text and get_relevant_context_from_transcripts                 *)
(***************************************************************************)
MaxResults == 2
MaxBudget  == 3

\* The documents a collection may hold.
DocPool == { <<"a">>, <<"b", " ", "c">>, <<" ", "d", " ", " ", "e", " ">> }

Queries == { <<"q">> }

ClientSentinel ==
    <<"Error:", " ", "OpenAI", " ", "client", " ", "not", " ", "initialized.",
      " ", "Cannot", " ", "generate", " ", "embeddings.">>
CollectionSentinel ==
    <<"Error:", " ", "ChromaDB", " ", "collection", " ", "not", " ", "available.">>

truncate_text_uncut(t, max_tokens) == t
\* truncate_text(text, max_tokens)
truncate_text(t, max_tokens) ==
    LET ws == PySplit(t)
    IN  IF Len(ws) > max_tokens
        THEN Join(PySlice(ws, 0, max_tokens), <<" ">>)
        ELSE t

\* related_queries, lines 157-162
related_queries(q) ==
    << q,
       <<"Background information on ">> \o q,
       <<"Historical context of ">> \o q,
       <<"Key events related to ">> \o q \o <<" in Hyrule's history">> >>

\* The orders in which list(a_set) may enumerate a set of texts.
Orders(S) ==
    {o \in [1..Cardinality(S) -> S] : \A i, j \in DOMAIN o : i # j => o[i] # o[j]}

InitRetrieveVars ==
    /\ user_query \in Queries
    /\ corpus \in SUBSET DocPool
    /\ n_results_per_query \in 1..MaxResults
    /\ max_total_tokens \in (-1)..MaxBudget
    /\ rpc = "call"
    /\ sub = 1
    /\ issued = <<>>
    /\ sub_failed = {}
    /\ sub_docs = <<>>
    /\ all_retrieved_texts_set = {}
    /\ combined_context = <<>>
    /\ context = None

IdleRetrieveVars ==
    /\ user_query = <<>>
    /\ corpus = {}
    /\ n_results_per_query = 3
    /\ max_total_tokens = 4000
    /\ rpc = "idle"
    /\ sub = 1
    /\ issued = <<>>
    /\ sub_failed = {}
    /\ sub_docs = <<>>
    /\ all_retrieved_texts_set = {}
    /\ combined_context = <<>>
    /\ context = None

KeepLastAnswer(texts, docs) == docs
\* Lines 179-181: every document of the answer is added to the set
AddAll(texts, docs) == texts \cup docs

AbortOnFailure(s) == s + Len(related_queries(user_query))
\* continue, lines 187 and 190: the loop goes on with the next sub-query
AfterFailure(s) == s + 1

\* Lines 152-164: the two availability checks and the loop set-up.
RetrieveCall ==
    /\ rpc = "call"
    /\ IF client = None
       THEN context' = ClientSentinel /\ rpc' = "returned"
       ELSE IF lore_collection = None
       THEN context' = CollectionSentinel /\ rpc' = "returned"
       ELSE context' = context /\ rpc' = "loop"
    /\ UNCHANGED <<user_query, corpus, n_results_per_query, max_total_tokens,
                   sub, issued, sub_failed, sub_docs, all_retrieved_texts_set,
                   combined_context>>
    /\ UNCHANGED <<chunkVars, client, lore_collection, ingestVars, compendiumVars, mapVars, ignVars>>

\* Lines 166-183: a sub-query is embedded and answered with the
\* n_results_per_query nearest documents (all of them in a smaller collection).
SubQueryAnswered ==
    /\ rpc = "loop"
    /\ sub <= Len(related_queries(user_query))
    /\ \E docs \in SUBSET corpus :
          /\ Cardinality(docs) = Min(n_results_per_query, Cardinality(corpus))
          /\ all_retrieved_texts_set' = AddAll(all_retrieved_texts_set, docs)
          /\ sub_docs' = Append(sub_docs, docs)
    /\ issued' = Append(issued, sub)
    /\ sub' = sub + 1
    /\ UNCHANGED <<user_query, corpus, n_results_per_query, max_total_tokens,
                   rpc, sub_failed, combined_context, context>>
    /\ UNCHANGED <<chunkVars, client, lore_collection, ingestVars, compendiumVars, mapVars, ignVars>>

\* Lines 185-190: embeddings.create or collection.query raised; the error is
\* printed and the loop continues with the next sub-query.
SubQueryFailed ==
    /\ rpc = "loop"
    /\ sub <= Len(related_queries(user_query))
    /\ issued' = Append(issued, sub)
    /\ sub_failed' = sub_failed \cup {sub}
    /\ sub_docs' = Append(sub_docs, {})
    /\ sub' = AfterFailure(sub)
    /\ UNCHANGED <<user_query, corpus, n_results_per_query, max_total_tokens,
                   rpc, all_retrieved_texts_set, combined_context, context>>
    /\ UNCHANGED <<chunkVars, client, lore_collection, ingestVars, compendiumVars, mapVars, ignVars>>

\* Lines 192-193: the set is joined in the order list() enumerates it and
\* the result truncated.
RetrieveReturn ==
    /\ rpc = "loop"
    /\ sub > Len(related_queries(user_query))
    /\ \E o \in Orders(all_retrieved_texts_set) :
          /\ combined_context' = Join(o, <<" ">>)
          /\ context' = truncate_text(combined_context', max_total_tokens)
    /\ rpc' = "returned"
    /\ UNCHANGED <<user_query, corpus, n_results_per_query, max_total_tokens,
                   sub, issued, sub_failed, sub_docs, all_retrieved_texts_set>>
    /\ UNCHANGED <<chunkVars, client, lore_collection, ingestVars, compendiumVars, mapVars, ignVars>>

(***************************************************************************)
(* CompendiumManager and format_entry_for_agent                            *)
(*                                                                         *)
(* A DataFrame is [columns, rows]; a row is a function on the columns in   *)
(* which it holds a value, and is NaN in the table's other columns.        *)
(***************************************************************************)
MaxEntries  == 2
MaxQueryLen == 2

PyNone        == [type |-> "None"]
Unset         == [type |-> "unset"]
Raised(e)     == [type |-> "raised", error |-> e]
Str(t)        == [type |-> "str", value |-> t]
Dict(cols, f) == [type |-> "dict", columns |-> cols, value |-> f]

GITHUB_BASE_URL ==
    "https://raw.githubusercontent.com/fredsmeds/Diaries-of-the-Upheaval-2.0/main/data/compendium/images/"

\* The entries a COMPENDIUM.json may hold, by their key in the file.
CompendiumPool ==
    [e1 |-> [name |-> <<"B", "o">>, category |-> <<"m">>,
             description |-> <<"A", " ", "c", "o", "m", "m", "o", "n", " ", "e", ".">>,
             image |-> <<"http://x/", "bo.png">>,
             thumbnail |-> <<"http://x/t/", "bo.png">>,
             locations |-> << <<"E">>, <<"A">> >>,
             drops |-> << <<"h">> >>,
             properties |-> << <<<<"h", "_", "p">>, <<"1">>>> >>],
     e2 |-> [name |-> <<"b", "o">>, category |-> <<"c">>,
             description |-> <<"d">>,
             image |-> <<"http://x/", "bo2.png">>,
             thumbnail |-> <<"http://x/t/", "bo2.png">>,
             drops |-> <<>>],
     e3 |-> [name |-> <<"b", "o", "b">>, category |-> <<"m">>,
             description |-> <<"e">>,
             image |-> <<"http://x/", "bob.png">>,
             thumbnail |-> <<"http://x/t/", "bob.png">>],
     e4 |-> [name |-> <<"o">>, description |-> <<"p">>],
     \* a group of groups with one leaf entry
     g1 |-> [creatures |->
                [x1 |-> [name |-> <<"o", "o">>, category |-> <<"m">>,
                         description |-> <<"n">>]]]]

EntryKeys == DOMAIN CompendiumPool

QueryChars == {"b", "B", "o", " ", "."}

\* The files: absent, not JSON, or a JSON object of entries in file order.
CompendiumFiles ==
    {<<"missing">>, <<"malformed">>} \cup
    {f \in SeqsUpTo(EntryKeys, MaxEntries) :
        \A i, j \in DOMAIN f : i # j => f[i] # f[j]}

\* os.path.basename(old_url)
Basename(url) == url[Len(url)]

\* create_new_url, lines 60-65
create_new_url(old_url) == <<GITHUB_BASE_URL, Basename(old_url)>>

\* Lines 47-52: the entries with their key as id_name, as a DataFrame; the
\* DataFrame of an empty list has no columns.
EntriesFrame(f) ==
    [columns |-> IF f = <<>> THEN {}
                 ELSE {"id_name"} \cup UNION {DOMAIN CompendiumPool[f[i]] : i \in DOMAIN f},
     rows |-> [i \in DOMAIN f |->
                 [c \in {"id_name"} \cup DOMAIN CompendiumPool[f[i]] |->
                     IF c = "id_name" THEN f[i] ELSE CompendiumPool[f[i]][c]]]]

\* The functions _load_all_data applies to a column.
Apply(fn, v) ==
    IF fn = "str.lower" THEN Lower(v) ELSE create_new_url(v)

\* df[new] = df[src].apply(fn): NaN stays without a value
WithColumn(df, new, src, fn) ==
    [columns |-> df.columns \cup {new},
     rows |-> [i \in DOMAIN df.rows |->
                 IF src \in DOMAIN df.rows[i]
                 THEN [c \in DOMAIN df.rows[i] \cup {new} |->
                          IF c = new THEN Apply(fn, df.rows[i][src]) ELSE df.rows[i][c]]
                 ELSE df.rows[i]]]

\* _load_all_data, lines 40-77: the table is assigned at line 53 and gains
\* its columns one by one; a KeyError on a missing column ends the load there.
LoadedFrame(f) ==
    IF f \in {<<"missing">>, <<"malformed">>} THEN PyNone
    ELSE LET df0 == EntriesFrame(f)
             df1 == WithColumn(df0, "search_name", "name", "str.lower")
             df2 == WithColumn(df1, "corrected_image_url", "image", "create_new_url")
             df3 == WithColumn(df2, "corrected_thumbnail_url", "thumbnail", "create_new_url")
         IN  IF "name" \notin df0.columns THEN df0
             ELSE IF "image" \notin df0.columns THEN df1
             ELSE IF "thumbnail" \notin df0.columns THEN df2
             ELSE df3

\* iloc[0].to_dict() of the rows of df with an index in hits
FirstRow(df, hits) ==
    IF hits = {} THEN PyNone
    ELSE Dict(df.columns, df.rows[CHOOSE i \in hits : \A j \in hits : i <= j])

NormalizeLowerOnly(q) == Lower(q)
\* search_query = query.lower().strip()
Normalize(q) == Strip(Lower(q))

\* find_entry, lines 83-96
find_entry(df, q) ==
    IF df = PyNone THEN PyNone
    ELSE IF "search_name" \notin df.columns THEN Raised("KeyError")
    ELSE LET search_query == Normalize(q)
             exact_match ==
                 FirstRow(df, {i \in DOMAIN df.rows :
                                 /\ "search_name" \in DOMAIN df.rows[i]
                                 /\ df.rows[i]["search_name"] = search_query})
             partial_match ==
                 FirstRow(df, {i \in DOMAIN df.rows :
                                 /\ "search_name" \in DOMAIN df.rows[i]
                                 /\ StrContains(df.rows[i]["search_name"], search_query)})
         IN  IF exact_match # PyNone THEN exact_match
             ELSE partial_match

TableEmptied(df) == IF df = PyNone THEN df ELSE [columns |-> df.columns, rows |-> <<>>]
\* Lines 88-94: the boolean indexing and to_dict build new objects; the
\* table itself is not assigned or changed
AfterLookup(df) == df

InitCompendiumVars ==
    /\ compendium_file \in CompendiumFiles
    /\ all_entries_df = Unset
    /\ query = <<>>
    /\ found_entry = Unset
    /\ response = Unset

IdleCompendiumVars ==
    /\ compendium_file = <<"missing">>
    /\ all_entries_df = Unset
    /\ query = <<>>
    /\ found_entry = Unset
    /\ response = Unset

\* CompendiumManager.__init__, lines 31-33
CompendiumInit ==
    /\ all_entries_df = Unset
    /\ all_entries_df' = LoadedFrame(compendium_file)
    /\ UNCHANGED <<compendium_file, query, found_entry, response>>
    /\ UNCHANGED <<chunkVars, client, lore_collection, ingestVars, retrieveVars, mapVars, ignVars>>

\* run_compendium_search (zelda_agent.py line 102): the lookup, in a new run
\* of the tool
CompendiumFind ==
    /\ all_entries_df # Unset
    /\ found_entry = Unset \/ response # Unset
    /\ \E q \in SeqsUpTo(QueryChars, MaxQueryLen) :
          /\ query' = q
          /\ found_entry' = find_entry(all_entries_df, q)
    /\ response' = Unset
    /\ all_entries_df' = AfterLookup(all_entries_df)
    /\ UNCHANGED compendium_file
    /\ UNCHANGED <<chunkVars, client, lore_collection, ingestVars, retrieveVars, mapVars, ignVars>>

NotFoundText ==
    <<"I could not find any information on that subject in the compendium.">>

\* [f"{key.replace('_', ' ').title()}: {value}" for key, value in properties.items()]
PropertyTexts(properties) ==
    [i \in DOMAIN properties |->
        Title(ReplaceSym(properties[i][1], "_", <<" ">>)) \o <<":", " ">> \o properties[i][2]]

\* isinstance(entry.get(key), list) and entry.get(key): a non-empty list
\* (NaN, a missing key and [] all fail the test)
NonEmptyField(entry, key) ==
    key \in DOMAIN entry.value /\ entry.value[key] # <<>>

\* entry.get(key) is NaN: the table has the column, the row no value in it
IsNaN(entry, key) == key \in entry.columns /\ key \notin DOMAIN entry.value

\* format_entry_for_agent, lines 102-124
format_entry_for_agent(entry) ==
    IF entry = PyNone \/ (entry.type = "dict" /\ entry.columns = {})
    THEN Str(NotFoundText)
    ELSE IF IsNaN(entry, "name") \/ IsNaN(entry, "category")
    THEN Raised("AttributeError")
    ELSE LET e == entry.value
             name == Title(IF "name" \in DOMAIN e THEN e["name"] ELSE <<"N", "/", "A">>)
             category ==
                 Title(IF "category" \in DOMAIN e THEN e["category"] ELSE <<"N", "/", "A">>)
             description ==
                 IF "description" \in DOMAIN e THEN e["description"]
                 ELSE IF IsNaN(entry, "description") THEN <<"nan">>
                 ELSE <<"No description available.">>
         IN  Str(<<"Compendium Entry: ">> \o name \o <<" (Category: ">> \o category
                 \o <<")", "\n", "Description: ">> \o description
                 \o (IF NonEmptyField(entry, "locations")
                     THEN <<"\n", "Common Locations: ">> \o Join(e["locations"], <<",", " ">>)
                     ELSE <<>>)
                 \o (IF NonEmptyField(entry, "drops")
                     THEN <<"\n", "Drops: ">> \o Join(e["drops"], <<",", " ">>)
                     ELSE <<>>)
                 \o (IF NonEmptyField(entry, "properties")
                     THEN <<"\n", "Properties: ">>
                          \o Join(PropertyTexts(e["properties"]), <<",", " ">>)
                     ELSE <<>>))

\* run_compendium_search (zelda_agent.py line 103): the formatting of what
\* the lookup returned; a KeyError of the lookup leaves the tool call.
CompendiumFormat ==
    /\ found_entry # Unset
    /\ response = Unset
    /\ response' = IF found_entry.type = "raised" THEN found_entry
                   ELSE format_entry_for_agent(found_entry)
    /\ UNCHANGED <<compendium_file, all_entries_df, query, found_entry>>
    /\ UNCHANGED <<chunkVars, client, lore_collection, ingestVars, retrieveVars, mapVars, ignVars>>

(***************************************************************************)
(* MapManager                                                              *)
(***************************************************************************)
MaxLocations == 2
MaxRenders   == 2

\* self.region_bounds, lines 21-31: the keys and, aligned, their boxes
RegionNames ==
    <<<<"l", "a", "n", "a", "y", "r", "u">>,
      <<"c", "e", "n", "t", "r", "a", "l", " ", "h", "y", "r", "u", "l", "e">>,
      <<"h", "y", "r", "u", "l", "e", " ", "c", "a", "s", "t", "l", "e">>,
      <<"h", "e", "b", "r", "a">>,
      <<"g", "e", "r", "u", "d", "o">>,
      <<"f", "a", "r", "o", "n">>,
      <<"n", "e", "c", "l", "u", "d", "a">>,
      <<"a", "k", "k", "a", "l", "a">>,
      <<"e", "l", "d", "i", "n">>>>
RegionBoxes ==
    <<[x_min |-> 2800, x_max |-> 4700, y_min |-> -1200, y_max |-> 1500, layer |-> "surface"],
      [x_min |-> -1500, x_max |-> 1500, y_min |-> -1500, y_max |-> 1500, layer |-> "surface"],
      [x_min |-> -500, x_max |-> 200, y_min |-> 500, y_max |-> 1300, layer |-> "surface"],
      [x_min |-> -4500, x_max |-> -1500, y_min |-> 1500, y_max |-> 4000, layer |-> "surface"],
      [x_min |-> -4800, x_max |-> -1800, y_min |-> -3800, y_max |-> -1500, layer |-> "surface"],
      [x_min |-> 0, x_max |-> 3000, y_min |-> -4000, y_max |-> -2000, layer |-> "surface"],
      [x_min |-> 1500, x_max |-> 4000, y_min |-> -3000, y_max |-> -1000, layer |-> "surface"],
      [x_min |-> 3000, x_max |-> 4800, y_min |-> 1500, y_max |-> 4000, layer |-> "surface"],
      [x_min |-> 1000, x_max |-> 3000, y_min |-> 1500, y_max |-> 4000, layer |-> "surface"]>>

Layers == {"surface", "sky", "depths"}

\* layers = ["surface", "sky", "depths"], line 38
LayerOrder == <<"surface", "sky", "depths">>

\* self.region_bounds.get(search_region): the box, or PyNone
RegionBoundsGet(search_region) ==
    IF \E i \in DOMAIN RegionNames : RegionNames[i] = search_region
    THEN RegionBoxes[CHOOSE i \in DOMAIN RegionNames : RegionNames[i] = search_region]
    ELSE PyNone

\* The icon of a marker whose layer has "icon": {"url": null}: line 51 gives
\* None, not the default.
NoneIcon == <<None>>

\* The locations the marker files may hold; coords <<>> stands for a marker
\* without coordinates, name <<>> for one without a name.
LocationPool ==
    { [name |-> <<"A">>, category |-> <<"B", "o", "s", "s">>, layer |-> "surface",
       coords |-> <<1000, 1500>>, icon |-> <<"icons/", "boss.png">>],
      [name |-> <<"b">>, category |-> <<"B", "o", "s", "s">>, layer |-> "surface",
       coords |-> <<3000, 4000>>, icon |-> NoneIcon],
      [name |-> <<"a", "b">>, category |-> <<"B", "o", "s", "s">>, layer |-> "surface",
       coords |-> <<999, 1500>>, icon |-> <<"icons/", "boss.png">>],
      [name |-> <<"A", "b">>, category |-> <<"B", "o", "s", "s">>, layer |-> "surface",
       coords |-> <<3001, 4000>>, icon |-> <<"icons/", "boss.png">>],
      [name |-> <<"b", "a">>, category |-> <<"B", "o", "s", "s">>, layer |-> "surface",
       coords |-> <<2000, 1499>>, icon |-> <<"icons/", "boss.png">>],
      [name |-> <<"a">>, category |-> <<"B", "o", "s", "s">>, layer |-> "surface",
       coords |-> <<2000, 4001>>, icon |-> <<"icons/", "boss.png">>],
      [name |-> <<"a">>, category |-> <<"B", "o", "s", "s">>, layer |-> "depths",
       coords |-> <<2000, 2000>>, icon |-> <<"icons/", "boss.png">>],
      [name |-> <<>>, category |-> <<"B", "o", "s", "s">>, layer |-> "surface",
       coords |-> <<>>, icon |-> <<"icons/", "boss.png">>],
      [name |-> <<"a", "b">>, category |-> <<"b", " ", "o">>, layer |-> "surface",
       coords |-> <<2000, 2000>>, icon |-> <<"icons/", "bo.png">>],
      [name |-> <<"a">>, category |-> <<"C", "a", "s">>, layer |-> "surface",
       coords |-> <<3000, 0>>, icon |-> <<"icons/", "cas.png">>] }

CategoryQueries ==
    { <<"b", "o", "s", "s">>, <<"B", "o", "s", "s", "e", "s">>, <<"c", "a", "s">> }

RegionQueries ==
    { <<" ", "E", "l", "d", "i", "n", " ">>, <<"l", "a", "n", "a", "y", "r", "u">>,
      <<"m", "o", "r", "d", "o", "r">> }

IconNames == {"boss.png", "bo.png", "cas.png"}

\* category.lower().strip().replace(' ', '').replace('s', '')
NormalizeCategory(category) ==
    ReplaceSym(ReplaceSym(Strip(Lower(category)), " ", <<>>), "s", <<>>)

\* search_category in loc_category, line 89
CategoryMatches(category, loc) ==
    Contains(NormalizeCategory(loc.category), NormalizeCategory(category))

InBoxStrict(bounds, coords) ==
    /\ coords # <<>>
    /\ bounds.x_min < coords[1] /\ coords[1] < bounds.x_max
    /\ bounds.y_min < coords[2] /\ coords[2] < bounds.y_max
\* the bounding-box test of line 91
InBox(bounds, coords) ==
    /\ coords # <<>>
    /\ bounds.x_min <= coords[1] /\ coords[1] <= bounds.x_max
    /\ bounds.y_min <= coords[2] /\ coords[2] <= bounds.y_max

\* find_locations_in_region, lines 78-95
find_locations_in_region(category, region) ==
    LET search_region == Strip(Lower(region))
        bounds == RegionBoundsGet(search_region)
    IN  IF bounds = PyNone THEN <<>>
        ELSE SelectSeq(locations_db,
                LAMBDA loc : /\ CategoryMatches(category, loc)
                             /\ loc.layer = bounds.layer
                             /\ InBox(bounds, loc.coords))

\* tempfile.NamedTemporaryFile(delete=False, suffix=".png"): a name not in use
FreshTmpFile == <<"tmp", Cardinality(tmp_files) + 1, ".png">>

\* Lines 125-141: the locations whose icon is pasted onto the overlay; an
\* icon file that is absent is passed over (line 129), one that cannot be
\* opened is passed over by the except clause (lines 140-141)
PastedMarkers(locations) ==
    SelectSeq(locations,
        LAMBDA loc : /\ icon_files[Basename(loc.icon)] = "ok"
                     /\ loc.coords # <<>>)

\* generate_map_image past the empty-list check, lines 102-150
RenderMap(locations) ==
    IF locations[1].layer \notin base_maps
    THEN [result |-> PyNone, files |-> tmp_files, drawn |-> <<>>]
    ELSE IF \E i \in DOMAIN locations : locations[i].icon = NoneIcon
    \* os.path.basename(None), line 126, outside the try
    THEN [result |-> Raised("TypeError"), files |-> tmp_files, drawn |-> <<>>]
    ELSE [result |-> Str(FreshTmpFile), files |-> tmp_files \cup {FreshTmpFile},
          drawn |-> PastedMarkers(locations)]

generate_blank_map_image(locations) ==
    IF locations = <<>>
    THEN [result |-> Str(FreshTmpFile), files |-> tmp_files \cup {FreshTmpFile},
          drawn |-> <<>>]
    ELSE RenderMap(locations)
\* generate_map_image, lines 97-152
generate_map_image(locations) ==
    IF locations = <<>>
    THEN [result |-> PyNone, files |-> tmp_files, drawn |-> <<>>]
    ELSE RenderMap(locations)

MaxFiles   == 2
MaxNameLen == 2

\* The result records of the loader: a list, or (Raised) an exception
List(v) == [type |-> "list", value |-> v]

\* The marker files a layer directory may hold: JSON with markers, or a file
\* json.load fails on.
FilePool ==
    { [layer |-> m.layer, ok |-> TRUE, markers |-> <<m>>] : m \in LocationPool }
    \cup { [layer |-> "surface", ok |-> TRUE, markers |-> <<>>],
           [layer |-> "surface", ok |-> FALSE, markers |-> <<>>],
           [layer |-> "sky", ok |-> FALSE, markers |-> <<>>] }

\* One well-formed file for each location of a list.
FilesOf(db) ==
    [i \in DOMAIN db |-> [layer |-> db[i].layer, ok |-> TRUE, markers |-> <<db[i]>>]]

\* Lines 48-59: the locations of a file, their layer that of the directory
FileLocations(f) == [i \in DOMAIN f.markers |-> [f.markers[i] EXCEPT !.layer = f.layer]]

\* The locations of the files of one layer directory, in listing order
RECURSIVE LayerLocations(_, _)
LayerLocations(files, layer) ==
    IF files = <<>> THEN <<>>
    ELSE (IF Head(files).layer = layer THEN FileLocations(Head(files)) ELSE <<>>)
         \o LayerLocations(Tail(files), layer)

\* _load_all_locations, lines 36-60: json.load raises on a malformed file
\* and nothing catches it
load_all_locations(files) ==
    IF \E i \in DOMAIN files : ~files[i].ok THEN Raised("JSONDecodeError")
    ELSE List(LayerLocations(files, LayerOrder[1]) \o LayerLocations(files, LayerOrder[2])
              \o LayerLocations(files, LayerOrder[3]))

NameChars == {"a", "A", "b", " "}

find_single_location_partial_first(name) ==
    LET search_name == Strip(Lower(name))
        partial == {i \in DOMAIN locations_db :
                      /\ locations_db[i].name # <<>>
                      /\ Contains(Lower(locations_db[i].name), search_name)}
    IN  IF partial # {} THEN locations_db[CHOOSE i \in partial : \A j \in partial : i <= j]
        ELSE PyNone
\* find_single_location, lines 62-74
find_single_location(name) ==
    LET search_name == Strip(Lower(name))
        exact == {i \in DOMAIN locations_db :
                    /\ locations_db[i].name # <<>>
                    /\ Lower(locations_db[i].name) = search_name}
        partial == {i \in DOMAIN locations_db :
                      /\ locations_db[i].name # <<>>
                      /\ Contains(Lower(locations_db[i].name), search_name)}
    IN  IF exact # {} THEN locations_db[CHOOSE i \in exact : \A j \in exact : i <= j]
        ELSE IF partial # {} THEN locations_db[CHOOSE i \in partial : \A j \in partial : i <= j]
        ELSE PyNone

\* A constructed manager: the locations are those of the marker files
InitMapVars ==
    /\ locations_db \in SeqsUpTo(LocationPool, MaxLocations)
    /\ marker_files = FilesOf(locations_db)
    /\ load_all_locations(marker_files) = List(locations_db)
    /\ map_init = "constructed"
    /\ single_name = <<>>
    /\ found_location = Unset
    /\ base_maps \in {{}, {"surface"}}
    /\ icon_files = [n \in IconNames |-> IF n = "boss.png" THEN "absent"
                                        ELSE IF n = "cas.png" THEN "corrupt" ELSE "ok"]
    /\ map_category = <<>>
    /\ map_region = <<>>
    /\ found_locations = <<>>
    /\ render_input = <<>>
    /\ drawn = <<>>
    /\ map_result = Unset
    /\ tmp_files = {}

\* The marker files before the manager is constructed
InitMapLoadVars ==
    /\ marker_files \in SeqsUpTo(FilePool, MaxFiles)
    /\ map_init = "unloaded"
    /\ single_name = <<>>
    /\ found_location = Unset
    /\ locations_db = <<>>
    /\ base_maps = {}
    /\ icon_files = [n \in IconNames |-> "absent"]
    /\ map_category = <<>>
    /\ map_region = <<>>
    /\ found_locations = <<>>
    /\ render_input = <<>>
    /\ drawn = <<>>
    /\ map_result = Unset
    /\ tmp_files = {}

IdleMapVars ==
    /\ marker_files = <<>>
    /\ map_init = "unloaded"
    /\ single_name = <<>>
    /\ found_location = Unset
    /\ locations_db = <<>>
    /\ base_maps = {}
    /\ icon_files = [n \in IconNames |-> "absent"]
    /\ map_category = <<>>
    /\ map_region = <<>>
    /\ found_locations = <<>>
    /\ render_input = <<>>
    /\ drawn = <<>>
    /\ map_result = Unset
    /\ tmp_files = {}

\* A call of find_locations_in_region
MapFindInRegion ==
    /\ \E category \in CategoryQueries, region \in RegionQueries :
          /\ map_category' = category
          /\ map_region' = region
          /\ found_locations' = <<find_locations_in_region(category, region)>>
    /\ UNCHANGED <<marker_files, map_init, single_name, found_location, locations_db,
                   base_maps, icon_files, render_input, drawn, map_result, tmp_files>>
    /\ UNCHANGED <<chunkVars, client, lore_collection, ingestVars, retrieveVars, compendiumVars, ignVars>>

\* A call of generate_map_image: with no locations or with the locations last
\* found
MapRender ==
    /\ Cardinality(tmp_files) < MaxRenders
    /\ \E locations \in {<<>>} \cup {found_locations[i] : i \in DOMAIN found_locations} :
          /\ render_input' = <<locations>>
          /\ map_result' = generate_map_image(locations).result
          /\ tmp_files' = generate_map_image(locations).files
          /\ drawn' = generate_map_image(locations).drawn
    /\ UNCHANGED <<marker_files, map_init, single_name, found_location, locations_db,
                   base_maps, icon_files, map_category, map_region, found_locations>>
    /\ UNCHANGED <<chunkVars, client, lore_collection, ingestVars, retrieveVars, compendiumVars, ignVars>>

\* MapManager.__init__, lines 13-34: the construction, which the exception of
\* the loader leaves
MapInit ==
    /\ map_init = "unloaded"
    /\ IF load_all_locations(marker_files).type = "raised"
       THEN map_init' = "raised" /\ UNCHANGED locations_db
       ELSE /\ map_init' = "constructed"
            /\ locations_db' = load_all_locations(marker_files).value
    /\ UNCHANGED <<marker_files, single_name, found_location, base_maps, icon_files,
                   map_category, map_region, found_locations, render_input, drawn,
                   map_result, tmp_files>>
    /\ UNCHANGED <<chunkVars, client, lore_collection, ingestVars, retrieveVars, compendiumVars, ignVars>>

\* A call of find_single_location.  The lookup reads locations_db and writes
\* nothing, so one lookup from every constructed manager covers every pair
\* of manager and name.
MapFindSingle ==
    /\ map_init = "constructed"
    /\ found_location = Unset
    /\ \E name \in SeqsUpTo(NameChars, MaxNameLen) :
          /\ single_name' = name
          /\ found_location' = find_single_location(name)
    /\ UNCHANGED <<marker_files, map_init, locations_db, base_maps, icon_files,
                   map_category, map_region, found_locations, render_input, drawn,
                   map_result, tmp_files>>
    /\ UNCHANGED <<chunkVars, client, lore_collection, ingestVars, retrieveVars, compendiumVars, ignVars>>

(***************************************************************************)
(* get_ign_data_for_agent                                                  *)
(***************************************************************************)
MaxIgnQueryLen == 2
MaxSummaryLen  == 3

IgnQueryChars == {"q", " "}
SummaryChars  == {"w", " "}

\* The pages a search may give, and the image sources a page may carry
IgnPages  == {<<"https://www.ign.com/wikis/a">>}
ImageSrcs == {<<>>, <<"https://img/a.png">>, <<"https://img/b.png">>}

\* first_paragraph.get_text(strip=True): text without surrounding white space
Summaries == {t \in SeqsUpTo(SummaryChars, MaxSummaryLen) : Strip(t) = t}

\* What scrape_ign_page_for_data may return for a page, lines 39-76
ScrapedData ==
    [summary : {PyNone} \cup {Str(t) : t \in Summaries},
     image_url : {PyNone} \cup {Str(u) : u \in ImageSrcs}]

\* bool(v) of an optional string
Truthy(v) == v # PyNone /\ v.value # <<>>

ImageTagOpen  == "|||IMAGE_URL:"
ImageTagClose == "|||"

\* f"|||IMAGE_URL:{image_url}|||"
ImageTag(image_url) == <<ImageTagOpen>> \o image_url \o <<ImageTagClose>>

NoPageText(q) ==
    <<"I could not find a relevant guide page on the IGN wiki for '">> \o q \o <<"'.">>
NoDataText ==
    <<"I found a page, but I was unable to extract a clear summary or image.">>

\* lines 96-103: the parts of the response, joined by new lines
response_parts(data) ==
    (IF Truthy(data.summary) THEN <<data.summary.value>> ELSE <<>>)
    \o (IF Truthy(data.image_url) THEN <<ImageTag(data.image_url.value)>> ELSE <<>>)

\* get_ign_data_for_agent, lines 78-103, for the outcomes of the search and
\* of the scraping
get_ign_data_for_agent(q, url, data) ==
    IF url = PyNone THEN NoPageText(q)
    ELSE IF ~Truthy(data.summary) /\ ~Truthy(data.image_url) THEN NoDataText
    ELSE Join(response_parts(data), <<"\n">>)

InitIgnVars ==
    /\ ign_query = <<>>
    /\ page_url = Unset
    /\ scraped_data = [summary |-> Unset, image_url |-> Unset]
    /\ ign_response = Unset

IdleIgnVars == InitIgnVars

\* A call for which the search gave no page (no result, or an exception)
IgnNoPage ==
    /\ \E q \in SeqsUpTo(IgnQueryChars, MaxIgnQueryLen) :
          /\ ign_query' = q
          /\ page_url' = PyNone
          /\ scraped_data' = [summary |-> Unset, image_url |-> Unset]
          /\ ign_response' = Str(get_ign_data_for_agent(q, PyNone, scraped_data'))
    /\ UNCHANGED <<chunkVars, client, lore_collection, ingestVars, retrieveVars, compendiumVars, mapVars>>

\* A call for which the search gave a page and the request for it failed
IgnRequestFailed ==
    /\ \E q \in SeqsUpTo(IgnQueryChars, MaxIgnQueryLen), url \in IgnPages :
          /\ ign_query' = q
          /\ page_url' = Str(url)
          /\ scraped_data' = [summary |-> PyNone, image_url |-> PyNone]
          /\ ign_response' = Str(get_ign_data_for_agent(q, page_url', scraped_data'))
    /\ UNCHANGED <<chunkVars, client, lore_collection, ingestVars, retrieveVars, compendiumVars, mapVars>>

\* A call for which the search gave a page and the page was scraped
IgnScraped ==
    /\ \E q \in SeqsUpTo(IgnQueryChars, MaxIgnQueryLen), url \in IgnPages,
          data \in ScrapedData :
          /\ ign_query' = q
          /\ page_url' = Str(url)
          /\ scraped_data' = data
          /\ ign_response' = Str(get_ign_data_for_agent(q, page_url', data))
    /\ UNCHANGED <<chunkVars, client, lore_collection, ingestVars, retrieveVars, compendiumVars, mapVars>>

\* The idle values of the other components.
IdleChunkVars ==
    /\ text = <<>>
    /\ max_words = DefaultMaxWords
    /\ overlap = DefaultOverlap
    /\ words = <<>>
    /\ start = 0
    /\ chunks = <<>>
    /\ cpc = "idle"

(***************************************************************************)
(* Specifications, one per component                                       *)
(***************************************************************************)
InitChunk == InitChunkVars /\ client = "ok" /\ lore_collection = "ok" /\ IdleIngestVars /\ IdleRetrieveVars
    /\ IdleCompendiumVars /\ IdleMapVars /\ IdleIgnVars
NextChunk == ChunkBegin \/ ChunkLoop
SpecChunk == InitChunk /\ [][NextChunk]_vars

\* Two runs of the ingestion over the same video ids, one after the other.
InitIngest == InitIngestVars /\ InitClient /\ InitCollection /\ IdleChunkVars /\ IdleRetrieveVars
    /\ IdleCompendiumVars /\ IdleMapVars /\ IdleIgnVars
NextIngest ==
    \E r \in Runs :
        \/ (r = 1 \/ ipc[1] \in {"returned", "raised"}) /\ IngestStart(r)
        \/ IngestVideo(r)
        \/ IngestCheck(r)
        \/ IngestEmbedAdd(r)
        \/ IngestEmbedFail(r)
SpecIngest == InitIngest /\ [][NextIngest]_vars

\* Two runs of the ingestion over the same video ids at the same time, their
\* steps interleaved in any order.
NextIngestConcurrent ==
    \E r \in Runs :
        \/ IngestStart(r)
        \/ IngestVideo(r)
        \/ IngestCheck(r)
        \/ IngestEmbedAdd(r)
        \/ IngestEmbedFail(r)
SpecIngestConcurrent == InitIngest /\ [][NextIngestConcurrent]_vars

\* One call of get_relevant_context_from_transcripts.
InitRetrieve == InitRetrieveVars /\ InitClient /\ InitCollection /\ IdleChunkVars /\ IdleIngestVars
    /\ IdleCompendiumVars /\ IdleMapVars /\ IdleIgnVars
NextRetrieve == RetrieveCall \/ SubQueryAnswered \/ SubQueryFailed \/ RetrieveReturn
SpecRetrieve == InitRetrieve /\ [][NextRetrieve]_vars

\* The compendium is loaded, then queried through the agent's tool.
InitCompendium == InitCompendiumVars /\ client = "ok" /\ lore_collection = "ok" /\ IdleChunkVars /\ IdleIngestVars
    /\ IdleRetrieveVars /\ IdleMapVars /\ IdleIgnVars
NextCompendium == CompendiumInit \/ CompendiumFind \/ CompendiumFormat
SpecCompendium == InitCompendium /\ [][NextCompendium]_vars

\* The map manager after construction: region searches and renderings.
InitMap == InitMapVars /\ client = "ok" /\ lore_collection = "ok" /\ IdleChunkVars /\ IdleIngestVars
    /\ IdleRetrieveVars /\ IdleCompendiumVars /\ IdleIgnVars
NextMap == MapFindInRegion \/ MapRender
SpecMap == InitMap /\ [][NextMap]_vars

\* The construction of the map manager from the marker files, and the name
\* lookups in what was loaded.
InitMapLoad == InitMapLoadVars /\ client = "ok" /\ lore_collection = "ok" /\ IdleChunkVars
    /\ IdleIngestVars /\ IdleRetrieveVars /\ IdleCompendiumVars /\ IdleIgnVars
NextMapLoad == MapInit \/ MapFindSingle
SpecMapLoad == InitMapLoad /\ [][NextMapLoad]_vars

\* Calls of the IGN tool.
\* The read paths of the loaded indices next to the ingestion: a loaded
\* compendium, a constructed map manager, a retrieval call or two ingestion
\* runs, each with the other components idle.
InitLoadedCompendium ==
    /\ compendium_file \in {f \in CompendiumFiles :
                               \A i \in DOMAIN f : f[i] \in {"e1", "e4", "g1", "missing"}}
    /\ all_entries_df = LoadedFrame(compendium_file)
    /\ query = <<>>
    /\ found_entry = Unset
    /\ response = Unset
InitReadOnly ==
    \/ /\ InitLoadedCompendium
       /\ client = "ok" /\ lore_collection = "ok" /\ IdleChunkVars /\ IdleIngestVars
       /\ IdleRetrieveVars /\ IdleMapVars /\ IdleIgnVars
    \/ /\ InitMap
       /\ \A i \in DOMAIN locations_db : locations_db[i].category # <<"B", "o", "s", "s">>
    \/ InitRetrieve
    \/ InitIngest
\* A read that changed an index would do so from a loaded state, so the
\* lookups by name are taken from the loaded states only, not after every
\* sequence of other reads.
NextReadOnly ==
    \/ found_entry = Unset /\ CompendiumFind
    \/ CompendiumFormat
    \/ map_init = "constructed" /\ found_locations = <<>> /\ MapFindSingle
    \/ map_init = "constructed" /\ found_location = Unset /\ MapFindInRegion
    \/ map_init = "constructed" /\ found_location = Unset /\ MapRender
    \/ NextRetrieve
    \/ all_entries_df = Unset /\ map_init = "unloaded" /\ rpc = "idle" /\ NextIngest
SpecReadOnly == InitReadOnly /\ [][NextReadOnly]_vars

InitIgn == InitIgnVars /\ client = "ok" /\ lore_collection = "ok" /\ IdleChunkVars /\ IdleIngestVars
    /\ IdleRetrieveVars /\ IdleCompendiumVars /\ IdleMapVars
NextIgn == IgnNoPage \/ IgnRequestFailed \/ IgnScraped
SpecIgn == InitIgn /\ [][NextIgn]_vars

(***************************************************************************)
(* Claims about the compendium (under SpecCompendium)                      *)
(***************************************************************************)
\* A query trimmed of leading and trailing whitespace, then lower-cased.
TrimThenLower(q) ==
    LET lead == CHOOSE n \in 0..Len(q) :
                    /\ \A i \in 1..n : q[i] \in {" ", "\n"}
                    /\ (n < Len(q) => q[n + 1] \notin {" ", "\n"})
        rest == SubSeq(q, lead + 1, Len(q))
        keep == CHOOSE n \in 0..Len(rest) :
                    /\ \A i \in (n + 1)..Len(rest) : rest[i] \in {" ", "\n"}
                    /\ (n > 0 => rest[n] \notin {" ", "\n"})
    IN  [i \in 1..keep |-> LowerChar(rest[i])]

\* C4: in one loaded catalog, every query that equals the last query after
\* trimming and lower-casing resolves to what the last query resolved to.
C4_ResolutionDeterminism ==
    (found_entry # Unset /\ all_entries_df # PyNone) =>
        \A q2 \in SeqsUpTo(QueryChars, MaxQueryLen) :
            TrimThenLower(q2) = TrimThenLower(query) =>
                find_entry(all_entries_df, q2) = found_entry

\* " B" resolved to a record.
C4_Witness ==
    /\ query = <<" ", "B">>
    /\ found_entry.type = "dict"

\* C8: a record with name, category, description and image, resolved by its
\* name and formatted, gives a text that contains the name and the
\* description, and the record's image value as image reference.
C8_FormattedEntryCarriesImage ==
    (/\ response.type = "str"
     /\ found_entry.type = "dict"
     /\ {"name", "category", "description", "image"} \subseteq DOMAIN found_entry.value
     /\ query = found_entry.value["name"])
    => /\ Contains(response.value, found_entry.value["name"])
       /\ Contains(response.value, found_entry.value["description"])
       /\ Contains(response.value, found_entry.value["image"])

\* The rows of the loaded table with a name, the smallest index of a set of
\* rows, and the result that stands for row i.
NamedRows == {i \in DOMAIN all_entries_df.rows : "name" \in DOMAIN all_entries_df.rows[i]}
FirstOf(S) == CHOOSE i \in S : \A j \in S : i <= j
RowResult(i) == Dict(all_entries_df.columns, all_entries_df.rows[i])

\* C14: a lookup in a loaded table returns the first record whose lower-cased
\* name equals the trimmed, lower-cased query if there is one, else the first
\* record whose lower-cased name contains it, else None.
C14_TwoPhaseResolution ==
    (found_entry # Unset /\ all_entries_df # PyNone
        /\ "search_name" \in all_entries_df.columns) =>
        LET q == TrimThenLower(query)
            exact == {i \in NamedRows : Lower(all_entries_df.rows[i]["name"]) = q}
            partial == {i \in NamedRows :
                          Contains(Lower(all_entries_df.rows[i]["name"]), q)}
        IN  IF exact # {} THEN found_entry = RowResult(FirstOf(exact))
            ELSE IF partial # {} THEN found_entry = RowResult(FirstOf(partial))
            ELSE found_entry = PyNone

\* C15: in a catalog file with the nested group, a query for the name of the
\* group's leaf entry resolves to that leaf.
C15_NestedCatalogResolves ==
    (found_entry # Unset
        /\ (\E i \in DOMAIN compendium_file : compendium_file[i] = "g1")
        /\ TrimThenLower(query) = <<"o", "o">>) =>
        /\ found_entry.type = "dict"
        /\ "name" \in DOMAIN found_entry.value
        /\ found_entry.value["name"] = <<"o", "o">>

\* The title-cased value of a field of the found record, N/A without one.
TitleOf(key) ==
    Title(IF key \in DOMAIN found_entry.value THEN found_entry.value[key]
          ELSE <<"N", "/", "A">>)

\* The formatted text has a section exactly when the record has a non-empty
\* value in the field.
SectionIff(label, key) ==
    Contains(response.value, <<"\n", label>>)
        <=> (key \in DOMAIN found_entry.value /\ found_entry.value[key] # <<>>)

\* C16: formatting None gives the fixed 'not found' text; formatting a record
\* gives a text with its name, category and description, and with a
\* Locations, Drops or Properties section exactly for the non-empty fields.
C16_EntryFormatting ==
    (response # Unset /\ found_entry.type # "raised") =>
        IF found_entry = PyNone THEN response = Str(NotFoundText)
        ELSE /\ response.type = "str"
             /\ Contains(response.value, TitleOf("name"))
             /\ Contains(response.value, TitleOf("category"))
             /\ ("description" \in DOMAIN found_entry.value =>
                    Contains(response.value, found_entry.value["description"]))
             /\ SectionIff("Common Locations: ", "locations")
             /\ SectionIff("Drops: ", "drops")
             /\ SectionIff("Properties: ", "properties")

\* C26: after construction the table is None or has its search-name and
\* corrected-URL columns, and no lookup raises.
C26_LoadAllOrNothing ==
    /\ all_entries_df # Unset =>
          \/ all_entries_df = PyNone
          \/ {"search_name", "corrected_image_url", "corrected_thumbnail_url"}
                 \subseteq all_entries_df.columns
    /\ found_entry.type # "raised"

(***************************************************************************)
(* Claims about get_relevant_context_from_transcripts (under SpecRetrieve) *)
(***************************************************************************)
\* The number of whitespace-separated words of a string.
WordCount(t) == Len(SelectSeq(ReSplitFrom(t, <<>>), LAMBDA w : w # <<>>))

\* C3 as stated: whatever the arguments and the outcome of the sub-queries,
\* the returned string holds at most max_total_tokens words.
C3_ReturnWithinBudget ==
    rpc = "returned" => WordCount(context) <= max_total_tokens

\* C3 amended: when client and collection are available and the budget is
\* not negative, the returned context holds at most max_total_tokens words.
C3_ContextWithinBudget ==
    (rpc = "returned" /\ client # None /\ lore_collection # None
        /\ max_total_tokens >= 0)
    => WordCount(context) <= max_total_tokens

\* A call that retrieved more words than the budget and returned a cut context.
C3_Witness ==
    /\ rpc = "returned"
    /\ client # None /\ lore_collection # None
    /\ max_total_tokens = 2
    /\ Cardinality(all_retrieved_texts_set) = 3
    /\ WordCount(context) = 2

\* C11: in a call that reached the loop, all four sub-queries are issued in
\* order whichever of them failed, and every text a sub-query that did not
\* fail returned is in the set and in the joined text before truncation.
C11_FailureIsolation ==
    (rpc = "returned" /\ client # None /\ lore_collection # None) =>
        /\ issued = <<1, 2, 3, 4>>
        /\ \A i \in (1..4) \ sub_failed :
              \A doc \in sub_docs[i] :
                  /\ doc \in all_retrieved_texts_set
                  /\ Contains(combined_context, doc)

\* The first and third sub-query failed, the fourth returned two texts.
C11_Witness ==
    /\ rpc = "returned"
    /\ sub_failed = {1, 3}
    /\ Cardinality(sub_docs[4]) = 2
    /\ sub_docs[2] # sub_docs[4]

\* C13: a call in which every sub-query failed returns a non-empty string
\* that describes the failure.
C13_FailureSurfaced ==
    (rpc = "returned" /\ sub_failed = 1..4) => context # <<>>

\* The texts the sub-queries that did not fail returned.
AnsweredTexts == UNION {sub_docs[i] : i \in DOMAIN sub_docs \ sub_failed}

\* C23: a call that reached the loop issues exactly the four sub-queries,
\* each answered with at most n_results_per_query texts; the text joined
\* before truncation is the distinct answered texts, each once, separated by
\* single spaces and nothing else, so at most 4 * n_results_per_query texts.
C23_ExpansionDeduplicated ==
    (rpc = "returned" /\ client # None /\ lore_collection # None) =>
        /\ issued = <<1, 2, 3, 4>>
        /\ Len(related_queries(user_query)) = 4
        /\ related_queries(user_query)[1] = user_query
        /\ \A i \in 1..4 : Cardinality(sub_docs[i]) <= n_results_per_query
        /\ all_retrieved_texts_set = AnsweredTexts
        /\ \E o \in Orders(AnsweredTexts) : combined_context = Join(o, <<" ">>)
        /\ Cardinality(AnsweredTexts) <= 4 * n_results_per_query

\* Two sub-queries returned different pairs of texts with one text in
\* common, three distinct texts in all.
C23_Witness ==
    /\ rpc = "returned"
    /\ sub_failed = {3}
    /\ n_results_per_query = 2
    /\ sub_docs[1] # sub_docs[2]
    /\ sub_docs[1] \cap sub_docs[2] # {}
    /\ Cardinality(AnsweredTexts) = 3

(***************************************************************************)
(* Claims about populate_collection_with_transcripts (under SpecIngest)    *)
(***************************************************************************)
\* The chunk ids of the transcripts the video id list names.
ListedChunkIds ==
    UNION {{ChunkId(video_ids[j], i - 1) :
                i \in 1..Len(TranscriptChunks(video_ids[j]))} :
           j \in 1..Len(video_ids)}

\* C1 as stated: after two runs in sequence over the same transcripts the
\* second run has added nothing and the record count it prints equals the
\* count after the first run.
C1_SecondRunAddsNothing ==
    ipc[2] = "returned" =>
        (adds[2] = {} /\ countPrinted[2] = countPrinted[1])

\* C1 amended: the second run adds only chunk ids whose embedding or add
\* failed in the first run; when nothing failed in the first run every listed
\* chunk id is stored after it, the second run adds nothing and both runs
\* print the same record count.
C1_IdempotentIngestion ==
    /\ ipc[2] = "returned" => adds[2] \subseteq failed[1]
    /\ (ipc[1] = "returned" /\ client = "ok" /\ failed[1] = {}) =>
           ListedChunkIds \subseteq DOMAIN collection
    /\ (ipc[2] = "returned" /\ failed[1] = {}) =>
           (adds[2] = {} /\ countPrinted[2] = countPrinted[1])

\* Both runs finished, the first stored two chunks without an error.
C1_Witness ==
    /\ ipc[2] = "returned"
    /\ failed[1] = {}
    /\ Cardinality(adds[1]) >= 2
    /\ countPrinted[2] # <<>>

\* C12: without a client or without a collection, no ingestion run raises,
\* requests a transcript or an embedding, or writes to the collection.
C12_FailFastWhenUnavailable ==
    (client = None \/ lore_collection = None) =>
        \A r \in Runs :
            /\ ipc[r] # "raised"
            /\ fetched[r] = {}
            /\ adds[r] = {}
            /\ failed[r] = {}

\* A step in which the embedding or the add of a chunk failed leaves the
\* collection as it was, the chunk id absent.
FailureLeavesAbsent ==
    \A r \in Runs :
        failed'[r] # failed[r] =>
            /\ collection' = collection
            /\ (failed'[r] \ failed[r]) \cap DOMAIN collection' = {}

\* No step removes or changes a stored record.
StoredUntouched ==
    \A k \in DOMAIN collection :
        k \in DOMAIN collection' /\ collection'[k] = collection[k]

\* A run that returned went through every chunk of every listed transcript:
\* each id is stored or its failure was logged by the run.
RunProcessedAll(r) ==
    (ipc[r] = "returned" /\ client = "ok") =>
        ListedChunkIds \subseteq (DOMAIN collection \cup failed[r])

\* A second run without a failure added exactly the ids the first run left
\* missing, and every listed chunk id is stored.
SecondRunCompletes ==
    (ipc[2] = "returned" /\ client = "ok" /\ failed[2] = {}) =>
        /\ adds[2] = failed[1] \ adds[1]
        /\ ListedChunkIds \subseteq DOMAIN collection

\* C27: a failed chunk is left absent and nothing stored is touched, the run
\* still goes through all remaining chunks and videos, and a later run
\* without failures adds exactly the missing ids, after which every chunk
\* of every listed transcript has its record.
C27_ResumableIngestion ==
    /\ [][FailureLeavesAbsent /\ StoredUntouched]_vars
    /\ [](\A r \in Runs : RunProcessedAll(r))
    /\ []SecondRunCompletes

\* The first run failed on the second chunk of v1 and went on to store the
\* chunks of v2 next to a record stored earlier; the second run added the
\* missing chunk.
C27_Witness ==
    /\ ipc[2] = "returned"
    /\ video_ids = <<"v1", "v2">>
    /\ failed[1] = {ChunkId("v1", 1)}
    /\ ChunkId("v1", 0) \in DOMAIN collection \ (adds[1] \cup adds[2])
    /\ ChunkId("v2", 0) \in adds[1]
    /\ failed[2] = {}
    /\ adds[2] = {ChunkId("v1", 1)}

\* C20 (under SpecIngestConcurrent): no chunk id is added by both of two
\* interleaved runs.
C20_WritersSerialized == adds[1] \cap adds[2] = {}

(***************************************************************************)
(* Claims about split_text_into_chunks (checked under SpecChunk)           *)
(***************************************************************************)
\* The words of a text: its maximal runs of characters that are not
\* whitespace, in order.
TextWords(t) == PySplit(t)

\* The word indices (0-based) lo .. lo + n - 1.
Window(lo, n) == lo..(lo + n - 1)

\* C2: with 0 <= overlap < max_words, the chunks returned for a text of N
\* words are runs of consecutive words of the text that together hold every
\* word index 0..N-1, every chunk but the last holds exactly max_words
\* words, and consecutive chunks share exactly overlap word indices.
C2_ChunkCoverage ==
    (cpc = "done" /\ overlap < max_words) =>
        LET W == TextWords(text)
            N == Len(W)
            K == Len(chunks)
            size(k) == Len(TextWords(chunks[k]))
        IN  \E lo \in [1..K -> 0..N] :
                /\ \A k \in 1..K :
                       /\ lo[k] + size(k) <= N
                       /\ TextWords(chunks[k]) = SubSeq(W, lo[k] + 1, lo[k] + size(k))
                /\ UNION {Window(lo[k], size(k)) : k \in 1..K} = 0..(N - 1)
                /\ \A k \in 1..(K - 1) : size(k) = max_words
                /\ \A k \in 1..(K - 1) :
                       Cardinality(Window(lo[k], size(k)) \cap Window(lo[k + 1], size(k + 1)))
                           = overlap

\* C9: the chunking loop makes progress: every iteration either ends the call
\* or moves start forward, so the call terminates for every text and every
\* (max_words, overlap).
C9_ChunkProgress ==
    [][cpc = "loop" => (cpc' = "done" \/ start' > start)]_vars

\* C10: on empty input text the call returns the empty sequence of chunks.
C10_EmptyTextNoChunks ==
    (cpc = "done" /\ text = <<>>) => chunks = <<>>

(***************************************************************************)
(* Claims about the map manager (under SpecMap)                            *)
(***************************************************************************)
\* The list the last region search returned.
FoundList == found_locations[1]

\* The locations of the data base that occur in that list.
Returned(loc) == \E j \in DOMAIN FoundList : FoundList[j] = loc

\* The box of the region asked for, by the trimmed, lower-cased name.
AskedBox ==
    LET asked == {i \in DOMAIN RegionNames : RegionNames[i] = TrimThenLower(map_region)}
    IN  IF asked = {} THEN PyNone ELSE RegionBoxes[CHOOSE i \in asked : TRUE]

\* C5: a region search returns, of the locations whose category matches the
\* query, exactly those on the region's layer whose coordinates lie in the
\* region's box, bounds included; it returns nothing else, and nothing for a
\* region that is not defined.
C5_RegionFilter ==
    found_locations # <<>> =>
        IF AskedBox = PyNone THEN FoundList = <<>>
        ELSE /\ \A i \in DOMAIN locations_db :
                  CategoryMatches(map_category, locations_db[i]) =>
                      (Returned(locations_db[i]) <=>
                          /\ locations_db[i].layer = AskedBox.layer
                          /\ locations_db[i].coords # <<>>
                          /\ AskedBox.x_min <= locations_db[i].coords[1]
                          /\ locations_db[i].coords[1] <= AskedBox.x_max
                          /\ AskedBox.y_min <= locations_db[i].coords[2]
                          /\ locations_db[i].coords[2] <= AskedBox.y_max)
             /\ \A j \in DOMAIN FoundList :
                  /\ \E i \in DOMAIN locations_db : locations_db[i] = FoundList[j]
                  /\ FoundList[j].layer = AskedBox.layer
                  /\ FoundList[j].coords # <<>>
                  /\ AskedBox.x_min <= FoundList[j].coords[1]
                  /\ FoundList[j].coords[1] <= AskedBox.x_max
                  /\ AskedBox.y_min <= FoundList[j].coords[2]
                  /\ FoundList[j].coords[2] <= AskedBox.y_max

\* A search in " Eldin " that returned the location on the corner of the box
\* and left out one just outside it.
C5_Witness ==
    /\ found_locations # <<>>
    /\ map_region = <<" ", "E", "l", "d", "i", "n", " ">>
    /\ Len(FoundList) = 1
    /\ FoundList[1].coords = <<1000, 1500>>
    /\ Len(locations_db) = 2
    /\ \E i \in DOMAIN locations_db :
          /\ locations_db[i].coords = <<999, 1500>>
          /\ CategoryMatches(map_category, locations_db[i])

\* A category case-folded, without spaces and without one trailing "s".
SingularCategory(category) ==
    LET t == ReplaceSym(Lower(category), " ", <<>>)
    IN  IF t # <<>> /\ t[Len(t)] = "s" THEN SubSeq(t, 1, Len(t) - 1) ELSE t

\* C24: of the locations on the layer and in the box of a defined region, a
\* region search returns exactly those whose category equals the query
\* category once both are case-folded, their spaces removed and one
\* trailing "s" stripped.
C24_CategoryNormalization ==
    (found_locations # <<>> /\ AskedBox # PyNone) =>
        \A i \in DOMAIN locations_db :
            (/\ locations_db[i].layer = AskedBox.layer
             /\ InBox(AskedBox, locations_db[i].coords))
            => (Returned(locations_db[i]) <=>
                   SingularCategory(locations_db[i].category) = SingularCategory(map_category))

\* The locations last rendered.
RenderedList == render_input[1]

\* C25: a rendering of a non-empty list whose layer has a base map returns a
\* path, and has drawn every location of the list whose icon file could be
\* found and opened, whatever the icons of the others.
C25_MarkerIsolation ==
    (render_input # <<>> /\ RenderedList # <<>>
        /\ RenderedList[1].layer \in base_maps) =>
        /\ map_result.type = "str"
        /\ drawn = SelectSeq(RenderedList,
                     LAMBDA loc : /\ loc.icon # NoneIcon
                                  /\ icon_files[Basename(loc.icon)] = "ok"
                                  /\ loc.coords # <<>>)

\* C6: generate_map_image called with an empty location list returns None
\* and creates no file.
C6_EmptyRenderNoOp ==
    [][(render_input' = << <<>> >> /\ MapRender)
        => (map_result' = PyNone /\ tmp_files' = tmp_files)]_vars

\* A rendering of the empty list after one that wrote a file.
C6_Witness ==
    /\ render_input = << <<>> >>
    /\ map_result = PyNone
    /\ tmp_files # {}

\* The named locations loaded, and the first of a set of them.
NamedLocations == {i \in DOMAIN locations_db : locations_db[i].name # <<>>}
FirstLocation(S) == locations_db[CHOOSE i \in S : \A j \in S : i <= j]

\* C17 (under SpecMapLoad): a name lookup returns the first location whose
\* lower-cased name equals the trimmed, lower-cased query if there is one,
\* else the first whose name contains it, else None; never a nameless one.
C17_NameResolution ==
    found_location # Unset =>
        LET q == TrimThenLower(single_name)
            exact == {i \in NamedLocations : Lower(locations_db[i].name) = q}
            partial == {i \in NamedLocations : Contains(Lower(locations_db[i].name), q)}
        IN  /\ IF exact # {} THEN found_location = FirstLocation(exact)
               ELSE IF partial # {} THEN found_location = FirstLocation(partial)
               ELSE found_location = PyNone
            /\ found_location # PyNone => found_location.name # <<>>

\* " a" resolved to the second location, named "A", though the first, named
\* otherwise, contains "a".
C17_Witness ==
    /\ found_location # Unset
    /\ single_name = <<" ", "a">>
    /\ Len(locations_db) = 2
    /\ locations_db[1].name \in {<<"a", "b">>, <<"b", "a">>}
    /\ locations_db[2].name = <<"A">>
    /\ found_location = locations_db[2]

\* The well-formed files in a list of files.
WellFormed(files) == SelectSeq(files, LAMBDA f : f.ok)

\* C18 (under SpecMapLoad): the construction completes whatever files are
\* malformed, and the locations are those of the well-formed files.
C18_LoadIsolation ==
    map_init # "unloaded" =>
        /\ map_init = "constructed"
        /\ List(locations_db) = load_all_locations(WellFormed(marker_files))

\* C19: a rendering of the locations the last rendering drew, which returned
\* a path, returns the same path and adds no file.
C19_StableOutputPath ==
    [][(MapRender /\ render_input' = render_input /\ map_result.type = "str")
        => (map_result' = map_result /\ tmp_files' = tmp_files)]_vars

(***************************************************************************)
(* Claims about the indices as a whole (under SpecReadOnly)                *)
(***************************************************************************)
\* A call, or a step of a call, of one of the read operations.
ReadStep ==
    \/ CompendiumFind
    \/ map_init = "constructed" /\ (MapFindSingle \/ MapFindInRegion \/ MapRender)
    \/ NextRetrieve

\* C21: no step of find_entry, find_single_location, find_locations_in_region,
\* generate_map_image or get_relevant_context_from_transcripts changes the
\* entity table, the list of locations or the stored chunks; the stored
\* chunks change only in the add of an ingestion run.
C21_ReadOnlyIndices ==
    [][/\ ReadStep => /\ all_entries_df' = all_entries_df
                      /\ locations_db' = locations_db
                      /\ corpus' = corpus
                      /\ collection' = collection
       /\ (collection' # collection \/ corpus' # corpus)
             => \E r \in Runs : IngestEmbedAdd(r)]_vars

\* Two locations loaded; a region search returned one of them and it was
\* rendered to a file twice.
C21_Witness ==
    /\ Len(locations_db) = 2
    /\ found_locations # <<>>
    /\ Len(FoundList) = 1
    /\ map_result.type = "str"
    /\ Cardinality(tmp_files) = 2

(***************************************************************************)
(* Claims about the IGN tool (under SpecIgn)                               *)
(***************************************************************************)
\* The nesting depth after each symbol of a tagged text, -1 once a marker is
\* opened inside a marker or closed outside one.
RECURSIVE MarkerDepth(_, _)
MarkerDepth(t, d) ==
    IF t = <<>> \/ d = -1 THEN d
    ELSE IF Head(t) = ImageTagOpen THEN MarkerDepth(Tail(t), IF d = 0 THEN 1 ELSE -1)
    ELSE IF Head(t) = ImageTagClose THEN MarkerDepth(Tail(t), IF d = 1 THEN 0 ELSE -1)
    ELSE MarkerDepth(Tail(t), d)

\* Every opening marker has its closing marker, and markers are not nested.
MarkersBalanced(t) == MarkerDepth(t, 0) = 0

\* The text left when the markers and what they enclose are removed.
RECURSIVE StripMarkers(_, _)
StripMarkers(t, inside) ==
    IF t = <<>> THEN <<>>
    ELSE IF Head(t) = ImageTagOpen THEN StripMarkers(Tail(t), TRUE)
    ELSE IF Head(t) = ImageTagClose THEN StripMarkers(Tail(t), FALSE)
    ELSE (IF inside THEN <<>> ELSE <<Head(t)>>) \o StripMarkers(Tail(t), inside)

\* The text has a symbol that is not white space.
HasProse(t) == \E i \in DOMAIN t : ~IsSpace(t[i])

\* C7: every string get_ign_data_for_agent returns has matching, unnested
\* markers and non-empty prose once the markers are stripped.
C7_MarkersWellFormed ==
    ign_response # Unset =>
        /\ MarkersBalanced(ign_response.value)
        /\ HasProse(StripMarkers(ign_response.value, FALSE))

====
